---- MODULE Spec2Model ----
(***************************************************************************)
(* A model of string_wizard's chunk layer (src/src/chunk.rs): one arena of *)
(* chunks over an immutable source text, the operations of Chunk, and the  *)
(* arena holder's step that wires the result of a split into the chain.    *)
(*                                                                         *)
(* Three specifications share the machine: Spec (decorations, edits,      *)
(* splits and fragments), SpecContains (contains over the chunks that      *)
(* splits and edits lead to) and SpecNew (Chunk::new on every span).       *)
(* debug_assertions is the build: debug_assert! is fatal only when it is   *)
(* TRUE.  A panic ends the run.                                            *)
(*                                                                         *)
(* Text is a sequence of one-character strings.  Option<T> is a sequence   *)
(* of length 0 (None) or 1 (Some).  A ChunkIdx i names arena entry i+1     *)
(* (index_vec counts from 0, Sequences from 1).                            *)
(***************************************************************************)
EXTENDS Integers, Sequences, FiniteSets, TLC

\* ------------------------------------------------------------------ bounds
\* The size of the arena is capped here: its chunks, plus the intro and
\* outro fragments they hold, plus the chunks among them that are edited.
MaxSize == 4
\* Chunk::new is tried on every span over 0 .. MaxTextSize.
MaxTextSize == 7

\* The source text the arena is built over, and the offsets handed to the
\* operations: every position of the text, its two ends included.
Source == <<"a", "b", "c">>
Offsets == 0 .. Len(Source)
\* Fragments handed to the decoration operations, contents handed to edit.
Frags == { <<"p">>, <<"q">> }
Contents == { <<>>, <<"x", "y">> }

None == <<>>
Some(x) == <<x>>
\* What a slice out of range evaluates to: the panic of a str index.
PanicText == <<"!panic">>

VARIABLES
    debug_assertions,  \* build configuration: are debug_assert!s compiled in
    chunks,            \* the arena (ChunkVec), a sequence of Chunk records
    head,              \* ChunkIdx of the first chunk of the chain
    last,              \* the last call made: its arguments and its outcome
    ever_edited        \* history: the indices edit has been called on

vars == <<debug_assertions, chunks, head, last, ever_edited>>

\* ------------------------------------------------------------------- Span
SpanStart(span) == span[1]
SpanEnd(span) == span[2]
\* Span::text: source[start..end], which panics on an inverted or
\* out-of-range interval.
SpanText(span, src) ==
    IF span[1] <= span[2] /\ span[2] <= Len(src)
    THEN SubSeq(src, span[1] + 1, span[2])
    ELSE PanicText

\* ------------------------------------------------------------ EditOptions
EditOptions == [overwrite : BOOLEAN, store_name : BOOLEAN]
DefaultEditOptions == [overwrite |-> TRUE, store_name |-> FALSE]

\* ------------------------------------------------------------------ Chunk
DefaultChunk ==
    [intro |-> <<>>, outro |-> <<>>, span |-> <<0, 0>>,
     edited_content |-> None, next |-> None, store_name |-> FALSE]

\* debug_assert!(span.0 < span.1): fatal only when debug assertions are on.
Chunk_new_panics(span) == debug_assertions /\ ~(span[1] < span[2])
\* Mutant: the span argument is dropped (Default::default() alone).
Chunk_new_default(span) == DefaultChunk
Chunk_new(span) == [DefaultChunk EXCEPT !.span = span]

start(self) == SpanStart(self.span)
end(self) == SpanEnd(self.span)

\* Mutant: a half-open test, the start offset counted as contained.
contains_half_open(self, text_index) ==
    start(self) <= text_index /\ text_index < end(self)

contains(self, text_index) ==
    start(self) < text_index /\ text_index < end(self)

append_outro(self, content) == [self EXCEPT !.outro = Append(@, content)]
append_intro(self, content) == [self EXCEPT !.intro = Append(@, content)]
\* Mutant: prepend_outro pushes at the back, as append_outro does.
prepend_outro_back(self, content) == [self EXCEPT !.outro = Append(@, content)]

prepend_outro(self, content) == [self EXCEPT !.outro = <<content>> \o @]
prepend_intro(self, content) == [self EXCEPT !.intro = <<content>> \o @]

is_edited(self) == self.edited_content # None

\* Mutant: overwrite clears intro and forgets outro.
edit_keeps_outro(self, content, opts) ==
    [self EXCEPT
        !.intro = IF opts.overwrite THEN <<>> ELSE @,
        !.store_name = opts.store_name,
        !.edited_content = Some(content)]

\* Mutant: store_name is sticky, an edit can set the flag but not reset it.
edit_sticky_store_name(self, content, opts) ==
    [self EXCEPT
        !.intro = IF opts.overwrite THEN <<>> ELSE @,
        !.outro = IF opts.overwrite THEN <<>> ELSE @,
        !.store_name = @ \/ opts.store_name,
        !.edited_content = Some(content)]

\* Mutant: the first edit wins, a later one keeps the content already there.
edit_first_wins(self, content, opts) ==
    [self EXCEPT
        !.intro = IF opts.overwrite THEN <<>> ELSE @,
        !.outro = IF opts.overwrite THEN <<>> ELSE @,
        !.store_name = opts.store_name,
        !.edited_content = IF is_edited(self) THEN @ ELSE Some(content)]

\* Mutant: an edit to the empty string leaves the chunk unedited.
edit_empty_unedited(self, content, opts) ==
    [self EXCEPT
        !.intro = IF opts.overwrite THEN <<>> ELSE @,
        !.outro = IF opts.overwrite THEN <<>> ELSE @,
        !.store_name = opts.store_name,
        !.edited_content = IF content = <<>> THEN None ELSE Some(content)]

edit(self, content, opts) ==
    [self EXCEPT
        !.intro = IF opts.overwrite THEN <<>> ELSE @,
        !.outro = IF opts.overwrite THEN <<>> ELSE @,
        !.store_name = opts.store_name,
        !.edited_content = Some(content)]

\* Mutant: the check for an edited chunk is missing.
split_panics_unedited_only(self, text_index) ==
    \/ debug_assertions /\ ~(text_index > start(self))
    \/ debug_assertions /\ ~(text_index < end(self))

\* The two debug_assert!s and the panic! at the head of split.
split_panics(self, text_index) ==
    \/ debug_assertions /\ ~(text_index > start(self))
    \/ debug_assertions /\ ~(text_index < end(self))
    \/ self.edited_content # None

\* Mutant: the right half starts one past the split offset.
last_slice_span_gap(self, text_index) == <<text_index + 1, end(self)>>

first_slice_span(self, text_index) == <<start(self), text_index>>
last_slice_span(self, text_index) == <<text_index, end(self)>>

\* Mutant: the outro is not handed to the new chunk.
split_new_chunk_drops_outro(self, text_index) ==
    [Chunk_new(last_slice_span(self, text_index)) EXCEPT !.next = self.next]

\* Mutant: the next link is not handed to the new chunk.
split_new_chunk_drops_next(self, text_index) ==
    [Chunk_new(last_slice_span(self, text_index)) EXCEPT !.outro = self.outro]

\* The chunk split returns (new_chunk), for a call that does not panic.
split_new_chunk(self, text_index) ==
    LET created == Chunk_new(last_slice_span(self, text_index))
        new_chunk == IF is_edited(self)
                     THEN edit(created, <<>>, DefaultEditOptions)
                     ELSE created
    IN  [new_chunk EXCEPT !.outro = self.outro, !.next = self.next]

\* Mutant: self keeps its whole span, the assignment of the first slice is
\* missing.
split_self_keeps_span(self, text_index) ==
    [self EXCEPT !.outro = Chunk_new(last_slice_span(self, text_index)).outro]

\* Mutant: the outro is copied to the new chunk, not moved out of self.
split_self_keeps_outro(self, text_index) ==
    [self EXCEPT !.span = first_slice_span(self, text_index)]

\* What split leaves in self, for a call that does not panic: mem::swap
\* gives self the new chunk's outro as it is at that point.
split_self(self, text_index) ==
    LET created == Chunk_new(last_slice_span(self, text_index))
        new_chunk == IF is_edited(self)
                     THEN edit(created, <<>>, DefaultEditOptions)
                     ELSE created
    IN  [self EXCEPT !.outro = new_chunk.outro,
                     !.span = first_slice_span(self, text_index)]

\* fragments: intro front to back, the content, outro front to back.
source_frag(self, original_source) ==
    IF self.edited_content # None
    THEN self.edited_content[1]
    ELSE SpanText(self.span, original_source)

\* Mutant: the content is yielded before the intro.
fragments_content_first(self, original_source) ==
    <<source_frag(self, original_source)>> \o self.intro \o self.outro

fragments(self, original_source) ==
    self.intro \o <<source_frag(self, original_source)>> \o self.outro

\* ------------------------------------------------------------------ arena
Get(arena, idx) == arena[idx + 1]
Indices(arena) == 0 .. (Len(arena) - 1)
\* IndexVec::push returns the index of the entry it appends.
PushIdx(arena) == Len(arena)

\* Mutant: the entry is put in front, which shifts every index in use.
Push_front(arena, chunk) == <<chunk>> \o arena

\* IndexVec::push: the arena with the entry appended.
Push(arena, chunk) == Append(arena, chunk)

\* The arena holder's wiring after a split of entry idx: push the returned
\* chunk and point the original's next at the new index.
WireSplit(arena, idx, text_index) ==
    LET self == Get(arena, idx)
        new_idx == PushIdx(arena)
        left == [split_self(self, text_index) EXCEPT !.next = Some(new_idx)]
    IN  Push([arena EXCEPT ![idx + 1] = left],
             split_new_chunk(self, text_index))

RECURSIVE Concat(_)
Concat(strs) == IF strs = <<>> THEN <<>> ELSE Head(strs) \o Concat(Tail(strs))

\* The walk from a chunk along next to None, concatenating fragments.
\* fuel bounds the walk by the size of the arena.
RECURSIVE Walk(_, _, _, _)
Walk(arena, link, src, fuel) ==
    IF link = None \/ fuel = 0 THEN <<>>
    ELSE LET c == Get(arena, link[1])
         IN  Concat(fragments(c, src)) \o Walk(arena, c.next, src, fuel - 1)

TextOf(arena, hd, src) == Walk(arena, Some(hd), src, Len(arena))
Text == TextOf(chunks, head, Source)

RECURSIVE Size(_)
Size(arena) ==
    IF arena = <<>> THEN 0
    ELSE 1 + Len(Head(arena).intro) + Len(Head(arena).outro)
           + (IF is_edited(Head(arena)) THEN 1 ELSE 0) + Size(Tail(arena))

\* ------------------------------------------------------------ the machine
\* The record of a call: which operation, on which arena entry, with what
\* argument, how it ended ("ok" or "panic"), what it left in the chunk it
\* was called on (post) and what it returned (ret).
Call(op, idx, arg, outcome, post, ret) ==
    [op |-> op, idx |-> idx, arg |-> arg, outcome |-> outcome,
     post |-> post, ret |-> ret]

\* A panic ends the program: nothing runs after it.
Running == last.outcome = "ok"

Init ==
    /\ debug_assertions \in BOOLEAN
    /\ chunks = << Chunk_new(<<0, Len(Source)>>) >>
    /\ head = 0
    /\ last = Call("init", 0, <<>>, "ok", None, None)
    /\ ever_edited = {}

\* Chunk::new on any span; the chunk is handed back, not put in the arena.
DoNew(span) ==
    /\ Running
    /\ last' = IF Chunk_new_panics(span)
               THEN Call("new", 0, span, "panic", None, None)
               ELSE Call("new", 0, span, "ok", None, Some(Chunk_new(span)))
    /\ UNCHANGED <<debug_assertions, chunks, head, ever_edited>>

DoContains(idx, text_index) ==
    /\ Running
    /\ last' = Call("contains", idx, text_index, "ok", Some(Get(chunks, idx)),
                    Some(contains(Get(chunks, idx), text_index)))
    /\ UNCHANGED <<debug_assertions, chunks, head, ever_edited>>

DoFragments(idx) ==
    /\ Running
    /\ LET self == Get(chunks, idx)
       IN  last' = IF source_frag(self, Source) = PanicText
                   THEN Call("fragments", idx, <<>>, "panic", None, None)
                   ELSE Call("fragments", idx, <<>>, "ok", Some(self),
                             Some(fragments(self, Source)))
    /\ UNCHANGED <<debug_assertions, chunks, head, ever_edited>>

Decorate(op, idx, content, after) ==
    /\ Running
    /\ Size(chunks) < MaxSize
    /\ chunks' = [chunks EXCEPT ![idx + 1] = after]
    /\ last' = Call(op, idx, content, "ok", Some(after), None)
    /\ UNCHANGED <<debug_assertions, head, ever_edited>>

DoAppendOutro(idx, content) ==
    Decorate("append_outro", idx, content, append_outro(Get(chunks, idx), content))
DoAppendIntro(idx, content) ==
    Decorate("append_intro", idx, content, append_intro(Get(chunks, idx), content))
DoPrependOutro(idx, content) ==
    Decorate("prepend_outro", idx, content, prepend_outro(Get(chunks, idx), content))
DoPrependIntro(idx, content) ==
    Decorate("prepend_intro", idx, content, prepend_intro(Get(chunks, idx), content))

DoEdit(idx, content, opts) ==
    /\ Running
    /\ is_edited(Get(chunks, idx)) \/ Size(chunks) < MaxSize
    /\ LET self == Get(chunks, idx)
           after == edit(self, content, opts)
       IN  /\ chunks' = [chunks EXCEPT ![idx + 1] = after]
           /\ last' = Call("edit", idx, <<content, opts, self.store_name>>, "ok",
                           Some(after), None)
    /\ ever_edited' = ever_edited \cup {idx}
    /\ UNCHANGED <<debug_assertions, head>>

\* split on entry idx, then the arena holder's wiring of the result.
DoSplit(idx, text_index) ==
    /\ Running
    /\ LET self == Get(chunks, idx)
       IN  IF split_panics(self, text_index)
           THEN /\ last' = Call("split", idx, text_index, "panic", None, None)
                /\ UNCHANGED chunks
           ELSE /\ Size(chunks) < MaxSize
                /\ chunks' = WireSplit(chunks, idx, text_index)
                /\ last' = Call("split", idx, text_index, "ok",
                                Some(split_self(self, text_index)),
                                Some(split_new_chunk(self, text_index)))
    /\ UNCHANGED <<debug_assertions, head, ever_edited>>

Next ==
    \/ \E idx \in Indices(chunks) : DoFragments(idx)
    \/ \E idx \in Indices(chunks), f \in Frags : DoAppendOutro(idx, f)
    \/ \E idx \in Indices(chunks), f \in Frags : DoAppendIntro(idx, f)
    \/ \E idx \in Indices(chunks), f \in Frags : DoPrependOutro(idx, f)
    \/ \E idx \in Indices(chunks), f \in Frags : DoPrependIntro(idx, f)
    \/ \E idx \in Indices(chunks), c \in Contents, o \in EditOptions :
           DoEdit(idx, c, o)
    \/ \E idx \in Indices(chunks), m \in Offsets : DoSplit(idx, m)

Spec == Init /\ [][Next]_vars

\* contains on every chunk that splits and default edits lead to.
NextContains ==
    \/ \E idx \in Indices(chunks), x \in Offsets : DoContains(idx, x)
    \/ \E idx \in Indices(chunks), c \in Contents :
           DoEdit(idx, c, DefaultEditOptions)
    \/ \E idx \in Indices(chunks), m \in Offsets : DoSplit(idx, m)

SpecContains == Init /\ [][NextContains]_vars

\* Chunk::new alone, on every span over the text sizes.
NextNew == \E a \in 0 .. MaxTextSize, b \in 0 .. MaxTextSize : DoNew(<<a, b>>)

SpecNew == Init /\ [][NextNew]_vars

\* ------------------------------------------------------------ BasicCowStr
\* A byte length is a usize of 64 bits, written as four 16-bit limbs, the
\* least significant first; a u32 is two limbs.  Of a string only its
\* length matters here.
LimbBase == 2 ^ 16
BoundaryLimbs == {0, 1, LimbBase - 1}
UsizeLens == { <<a, b, c, d>> : a \in BoundaryLimbs, b \in BoundaryLimbs,
                               c \in BoundaryLimbs, d \in BoundaryLimbs }

\* u32::try_from(len).is_ok(): the value fits in the low 32 bits.
u32_try_from_is_ok(len) == len[3] = 0 /\ len[4] = 0

\* Mutant: the test is len < u32::MAX, a length of u32::MAX is refused.
BasicCowStr_new_panics_strict(len) ==
    ~u32_try_from_is_ok(len) \/ len = <<LimbBase - 1, LimbBase - 1, 0, 0>>

\* assert!(u32::try_from(inner.len()).is_ok()): fatal in every build.
BasicCowStr_new_panics(len) == ~u32_try_from_is_ok(len)
BasicCowStr_new(len) == [inner_len |-> len]
\* self.inner.len() as u32: the cast keeps the low 32 bits.
BasicCowStr_len(self) == <<self.inner_len[1], self.inner_len[2]>>

\* BasicCowStr::new, and From::from which calls it, then len() on the value.
DoCowStrNew(len) ==
    /\ Running
    /\ last' = IF BasicCowStr_new_panics(len)
               THEN Call("BasicCowStr::new", 0, len, "panic", None, None)
               ELSE Call("BasicCowStr::new", 0, len, "ok",
                         Some(BasicCowStr_new(len)),
                         Some(BasicCowStr_len(BasicCowStr_new(len))))
    /\ UNCHANGED <<debug_assertions, chunks, head, ever_edited>>

DoCowStrFrom(len) ==
    /\ Running
    /\ last' = IF BasicCowStr_new_panics(len)
               THEN Call("BasicCowStr::from", 0, len, "panic", None, None)
               ELSE Call("BasicCowStr::from", 0, len, "ok",
                         Some(BasicCowStr_new(len)),
                         Some(BasicCowStr_len(BasicCowStr_new(len))))
    /\ UNCHANGED <<debug_assertions, chunks, head, ever_edited>>

NextCowStr ==
    \/ \E len \in UsizeLens : DoCowStrNew(len)
    \/ \E len \in UsizeLens : DoCowStrFrom(len)

SpecCowStr == Init /\ [][NextCowStr]_vars

\* ================================================================= claims
\* The chunk a split call was made on, as it was before the call, in a step
\* that is a successful split.
IsSplitStep == last'.op = "split" /\ last'.outcome = "ok"
SplitSelf == Get(chunks, last'.idx)
Interior(self, m) == start(self) < m /\ m < end(self)

\* C1. Split partition law: a split of an unedited chunk spanning [a,b) at
\* an offset m with a < m < b leaves the original chunk with span [a,m) and
\* returns a chunk with span [m,b).
C1_SplitPartition ==
    [][ (IsSplitStep /\ ~is_edited(SplitSelf) /\ Interior(SplitSelf, last'.arg))
        => /\ last'.post[1].span = <<start(SplitSelf), last'.arg>>
           /\ last'.ret[1].span = <<last'.arg, end(SplitSelf)>>
           /\ Get(chunks', last'.idx).span = <<start(SplitSelf), last'.arg>>
           /\ end(last'.post[1]) = start(last'.ret[1]) ]_vars

\* A split at an interior offset of a chunk that does not start the text.
C1_Witness ==
    /\ last.op = "split" /\ last.outcome = "ok"
    /\ 0 < start(last.post[1])
    /\ start(last.post[1]) < last.arg /\ last.arg < end(last.ret[1])

\* C2. Split preserves decoration: after a split of an unedited chunk with
\* intro I and outro O at an interior offset, the original chunk has intro I
\* and an empty outro, the returned chunk an empty intro and outro O.
C2_SplitDecoration ==
    [][ (IsSplitStep /\ ~is_edited(SplitSelf) /\ Interior(SplitSelf, last'.arg))
        => /\ last'.post[1].intro = SplitSelf.intro
           /\ last'.post[1].outro = <<>>
           /\ last'.ret[1].intro = <<>>
           /\ last'.ret[1].outro = SplitSelf.outro ]_vars

\* A split of a chunk that had both an intro and an outro.
C2_Witness ==
    /\ last.op = "split" /\ last.outcome = "ok"
    /\ last.post[1].intro # <<>> /\ last.ret[1].outro # <<>>
    /\ start(last.post[1]) < last.arg /\ last.arg < end(last.ret[1])

\* C3. Split-after-edit always fails: once edit has been called on a chunk,
\* every split of it panics, at every offset, whatever decorations or edits
\* came in between.
C3_SplitAfterEditFails ==
    (last.op = "split" /\ last.idx \in ever_edited) => last.outcome = "panic"

\* A split at an interior offset of a chunk edited to the empty string and
\* decorated after the edit, in a build without debug assertions.
C3_Witness ==
    /\ last.op = "split" /\ last.outcome = "panic"
    /\ last.idx \in ever_edited
    /\ ~debug_assertions
    /\ Get(chunks, last.idx).edited_content = Some(<<>>)
    /\ Get(chunks, last.idx).intro # <<>>
    /\ Interior(Get(chunks, last.idx), last.arg)

\* C4. Split at a non-interior offset fails fatally: a split of a chunk
\* spanning [a,b) at an offset <= a or >= b panics and returns no chunk.
C4_NonInteriorSplitFails ==
    [][ (last'.op = "split" /\ ~Interior(SplitSelf, last'.arg))
        => (last'.outcome = "panic" /\ last'.ret = None) ]_vars

\* C5. Edit overwrite law: edit(c, overwrite) empties intro and outro,
\* edit(c, no overwrite) leaves both as they were; the content is c.
C5_EditOverwrite ==
    [][ last'.op = "edit"
        => LET self == Get(chunks, last'.idx)
               after == Get(chunks', last'.idx)
               content == last'.arg[1]
               opts == last'.arg[2]
           IN  /\ opts.overwrite => (after.intro = <<>> /\ after.outro = <<>>)
               /\ ~opts.overwrite => (after.intro = self.intro
                                      /\ after.outro = self.outro)
               /\ after.edited_content = Some(content)
               /\ fragments(after, Source)[Len(after.intro) + 1] = content ]_vars

\* An edit without overwrite of a chunk holding an intro and an outro.
C5_Witness ==
    /\ last.op = "edit" /\ ~last.arg[2].overwrite
    /\ last.post[1].intro # <<>> /\ last.post[1].outro # <<>>
    /\ last.post[1].edited_content = Some(last.arg[1])

\* C6. Fragment concatenation law: fragments(source) yields len(intro) + 1 +
\* len(outro) items: the intro fragments front to back, then the content
\* (edited_content if set, else the slice of the source the span names),
\* then the outro fragments front to back.  A chunk that is edited, or whose
\* span lies in the source, has such a sequence.
C6_FragmentsOrder ==
    last.op = "fragments" =>
        LET self == Get(chunks, last.idx)
            a == self.span[1]
            b == self.span[2]
            n == Len(self.intro)
        IN  /\ (is_edited(self) \/ (a <= b /\ b <= Len(Source)))
                  => last.outcome = "ok"
            /\ last.outcome = "ok" =>
                 LET fr == last.ret[1]
                 IN  /\ Len(fr) = n + 1 + Len(self.outro)
                     /\ \A k \in 1 .. n : fr[k] = self.intro[k]
                     /\ fr[n + 1] = IF self.edited_content # None
                                    THEN self.edited_content[1]
                                    ELSE [i \in 1 .. (b - a) |-> Source[a + i]]
                     /\ \A k \in 1 .. Len(self.outro) :
                            fr[n + 1 + k] = self.outro[k]

\* fragments of an unedited chunk with two intro fragments and one outro
\* fragment.
C6_Witness ==
    /\ last.op = "fragments" /\ last.outcome = "ok"
    /\ ~is_edited(Get(chunks, last.idx))
    /\ Len(Get(chunks, last.idx).intro) = 2
    /\ Get(chunks, last.idx).intro[1] # Get(chunks, last.idx).intro[2]
    /\ Len(Get(chunks, last.idx).outro) = 1
    /\ Len(last.ret[1]) = 4

\* The walk yields a text: no chunk on it names a slice outside the source.
Materializes(arena) ==
    \A i \in Indices(arena) : source_frag(Get(arena, i), Source) # PanicText

\* Only splits at interior offsets have been made: no chunk is edited or
\* decorated, and no span is empty or inverted.
OnlyInteriorSplits ==
    \A i \in Indices(chunks) :
        /\ ~is_edited(Get(chunks, i))
        /\ Get(chunks, i).intro = <<>> /\ Get(chunks, i).outro = <<>>
        /\ start(Get(chunks, i)) < end(Get(chunks, i))

\* The scenario of the specification: "hello world", split at 5, the chunk
\* [5,11) edited to " there" with overwrite.
Hello == <<"h", "e", "l", "l", "o", " ", "w", "o", "r", "l", "d">>
HelloSplit == WireSplit(<< Chunk_new(<<0, Len(Hello)>>) >>, 0, 5)
HelloEdited ==
    [HelloSplit EXCEPT ![2] = edit(@, <<" ", "t", "h", "e", "r", "e">>,
                                   [overwrite |-> TRUE, store_name |-> FALSE])]
HelloScenario ==
    /\ ~split_panics(Chunk_new(<<0, Len(Hello)>>), 5)
    /\ HelloSplit[1].span = <<0, 5>> /\ HelloSplit[2].span = <<5, 11>>
    /\ fragments(HelloSplit[1], Hello) = << <<"h", "e", "l", "l", "o">> >>
    /\ fragments(HelloSplit[2], Hello) = << <<" ", "w", "o", "r", "l", "d">> >>
    /\ TextOf(HelloSplit, 0, Hello) = Hello
    /\ TextOf(HelloEdited, 0, Hello)
         = <<"h", "e", "l", "l", "o", " ", "t", "h", "e", "r", "e">>

\* C7. Split does not change the materialized text: a split of an unedited
\* chunk of the chain at an interior offset, wired into the arena, leaves
\* the text of the walk from head as it was; after splits alone the walk
\* yields the source; and the "hello world" scenario yields "hello there".
C7_SplitKeepsText ==
    /\ [](OnlyInteriorSplits => Text = Source)
    /\ [](HelloScenario)
    /\ [][ (/\ IsSplitStep
            /\ ~is_edited(SplitSelf)
            /\ Interior(SplitSelf, last'.arg)
            /\ Materializes(chunks))
           => /\ Materializes(chunks')
              /\ TextOf(chunks', head', Source) = Text ]_vars

\* A second split, of a decorated chunk, in a chain that holds an edited
\* chunk: the text differs from the source and the chain has three chunks.
C7_Witness ==
    /\ last.op = "split" /\ last.outcome = "ok"
    /\ start(last.post[1]) < last.arg /\ last.arg < end(last.ret[1])
    /\ Len(chunks) = 3
    /\ Materializes(chunks)
    /\ \E i \in Indices(chunks) : is_edited(Get(chunks, i))
    /\ Text # Source

\* C8. contains is strictly interior: contains(x) on a chunk spanning [a,b)
\* is true exactly when a < x < b; it is false at a and at b, and a chunk of
\* length 1 contains no offset.
C8_ContainsInterior ==
    last.op = "contains" =>
        LET self == Get(chunks, last.idx)
            a == self.span[1]
            b == self.span[2]
            x == last.arg
        IN  /\ last.ret[1] = (x \in (a + 1) .. (b - 1))
            /\ x = a => last.ret[1] = FALSE
            /\ x = b => last.ret[1] = FALSE
            /\ b = a + 1 => last.ret[1] = FALSE

\* contains answers TRUE for an offset inside a chunk that a split made.
C8_Witness ==
    /\ last.op = "contains" /\ last.ret[1] = TRUE
    /\ start(Get(chunks, last.idx)) > 0
    /\ Len(chunks) > 1

\* C9. Split hands over the next link and does not rewire the original: the
\* returned chunk's next is the original's next n, and the original's next
\* is still n when split returns.
C9_SplitNext ==
    [][ IsSplitStep
        => /\ last'.ret[1].next = SplitSelf.next
           /\ last'.post[1].next = SplitSelf.next ]_vars

\* A split of a chunk whose next link was Some index.
C9_Witness ==
    /\ last.op = "split" /\ last.outcome = "ok"
    /\ last.ret[1].next # None
    /\ last.post[1].next = last.ret[1].next
    /\ Get(chunks, last.idx).next = Some(Len(chunks) - 1)

\* C10. Chunk::new(s) with s.start < s.end creates a chunk with start() =
\* s.start and end() = s.end that is unedited, has empty intro and outro,
\* next None and store_name false.
C10_NewChunk ==
    (last.op = "new" /\ last.arg[1] < last.arg[2]) =>
        /\ last.outcome = "ok"
        /\ start(last.ret[1]) = last.arg[1]
        /\ end(last.ret[1]) = last.arg[2]
        /\ ~is_edited(last.ret[1])
        /\ last.ret[1].intro = <<>>
        /\ last.ret[1].outro = <<>>
        /\ last.ret[1].next = None
        /\ last.ret[1].store_name = FALSE

\* Chunk::new on a span that does not start at 0.
C10_Witness ==
    /\ last.op = "new" /\ last.outcome = "ok"
    /\ 0 < last.arg[1] /\ last.arg[1] < last.arg[2]
    /\ last.ret[1].span = last.arg

\* C11. Span non-emptiness invariant: every chunk of the arena, both halves
\* of every split included, has span.start < span.end, and Chunk::new on an
\* empty or inverted span panics instead of creating such a chunk.
C11_SpanNonEmpty ==
    /\ \A i \in Indices(chunks) : start(Get(chunks, i)) < end(Get(chunks, i))
    /\ (last.op = "split" /\ last.outcome = "ok")
          => /\ start(last.post[1]) < end(last.post[1])
             /\ start(last.ret[1]) < end(last.ret[1])
    /\ (last.op = "new" /\ ~(last.arg[1] < last.arg[2]))
          => (last.outcome = "panic" /\ last.ret = None)
    /\ (last.op = "new" /\ last.outcome = "ok")
          => start(last.ret[1]) < end(last.ret[1])

\* Numbers in limbs: a > b, compared from the most significant limb down.
RECURSIVE LimbsGreater(_, _, _)
LimbsGreater(a, b, k) ==
    IF k = 0 THEN FALSE
    ELSE IF a[k] # b[k] THEN a[k] > b[k]
    ELSE LimbsGreater(a, b, k - 1)
U32MaxLimbs == <<LimbBase - 1, LimbBase - 1, 0, 0>>

\* C12. CowStr length cap: constructing a CowStr from content whose byte
\* length exceeds u32::MAX panics; at or below u32::MAX it succeeds and
\* len() is exactly that byte length.
C12_CowStrCap ==
    last.op \in {"BasicCowStr::new", "BasicCowStr::from"} =>
        /\ LimbsGreater(last.arg, U32MaxLimbs, 4) => last.outcome = "panic"
        /\ ~LimbsGreater(last.arg, U32MaxLimbs, 4)
              => /\ last.outcome = "ok"
                 /\ <<last.ret[1][1], last.ret[1][2], 0, 0>> = last.arg

\* A CowStr of exactly u32::MAX bytes, and its len().
C12_Witness ==
    /\ last.op = "BasicCowStr::from" /\ last.outcome = "ok"
    /\ last.arg = U32MaxLimbs
    /\ last.ret[1] = <<LimbBase - 1, LimbBase - 1>>

\* C13. Arena index stability: a push returns an index no earlier push
\* returned, every index in use still names the same entry afterwards, and
\* the number of entries never decreases.  The pushes are those of the
\* wiring after a split; a call on entry idx changes that entry alone.
C13_IndexStability ==
    [][ /\ Len(chunks') >= Len(chunks)
        /\ \A i \in Indices(chunks) :
              i # last'.idx => Get(chunks', i) = Get(chunks, i)
        /\ IsSplitStep
              => /\ Len(chunks') = Len(chunks) + 1
                 /\ (Len(chunks') - 1) \notin Indices(chunks)
                 /\ Get(chunks', Len(chunks') - 1) = last'.ret[1]
                 /\ Get(chunks', last'.idx)
                      = [last'.post[1] EXCEPT !.next = Some(Len(chunks') - 1)]
        /\ ~IsSplitStep => Len(chunks') = Len(chunks) ]_vars

\* A second push: index 2 is handed out while indices 0 and 1 are in use,
\* and the entry at index 1 is an edited chunk.
C13_Witness ==
    /\ last.op = "split" /\ last.outcome = "ok"
    /\ Len(chunks) = 3
    /\ last.idx = 0
    /\ is_edited(Get(chunks, 1))
    /\ Get(chunks, 2) = last.ret[1]

\* C14. is_edited is monotone: false for the first chunk and for both
\* halves of a split, true from the first edit on (an edit to the empty
\* string included), whatever edits and decorations follow.
C14_IsEditedMonotone ==
    /\ \A i \in Indices(chunks) :
          is_edited(Get(chunks, i)) <=> i \in ever_edited
    /\ (last.op = "split" /\ last.outcome = "ok")
          => (~is_edited(last.post[1]) /\ ~is_edited(last.ret[1]))
    /\ last.op = "edit" => is_edited(last.post[1])

\* A chunk edited to the empty string and decorated afterwards, next to an
\* unedited chunk.
C14_Witness ==
    /\ last.op = "append_outro"
    /\ last.idx \in ever_edited
    /\ last.post[1].edited_content = Some(<<>>)
    /\ is_edited(Get(chunks, last.idx))
    /\ \E i \in Indices(chunks) : ~is_edited(Get(chunks, i))

\* An edit step, and an edit step that follows an edit of the same chunk.
IsEditStep == last'.op = "edit"
IsSecondEdit == last.op = "edit" /\ IsEditStep /\ last'.idx = last.idx

\* C15. edit is idempotent and the last edit wins: the same edit applied
\* again leaves the chunk as it is, and after an edit (c1, o1) followed by
\* an edit (c2, o2) the content is c2, store_name is o2.store_name, and
\* intro and outro are empty if o2.overwrite and otherwise what they were
\* after the first edit.
C15_EditIdempotentLastWins ==
    [][ /\ IsEditStep
           => edit(Get(chunks', last'.idx), last'.arg[1], last'.arg[2])
                 = Get(chunks', last'.idx)
        /\ (IsSecondEdit /\ last'.arg[1] = last.arg[1] /\ last'.arg[2] = last.arg[2])
           => chunks' = chunks
        /\ IsSecondEdit
           => LET first == Get(chunks, last.idx)
                  second == Get(chunks', last.idx)
                  c2 == last'.arg[1]
                  o2 == last'.arg[2]
              IN  /\ second.edited_content = Some(c2)
                  /\ second.store_name = o2.store_name
                  /\ second.intro = IF o2.overwrite THEN <<>> ELSE first.intro
                  /\ second.outro = IF o2.overwrite THEN <<>> ELSE first.outro
                  /\ second.span = first.span
                  /\ second.next = first.next ]_vars

\* A second edit, without overwrite, of a chunk whose earlier edit recorded
\* the name and that holds a decoration.
C15_Witness ==
    /\ last.op = "edit"
    /\ last.arg[3]
    /\ ~last.arg[2].overwrite
    /\ ~last.arg[2].store_name
    /\ last.arg[1] = <<>>
    /\ Get(chunks, last.idx).edited_content = Some(<<>>)
    /\ Get(chunks, last.idx).intro # <<>>

\* The chunk with its store_name flag set to b, every other field as it is.
WithStoreName(self, b) == [self EXCEPT !.store_name = b]

\* What the operations make of a chunk, the flag itself left out.
Observables(self) ==
    [ span |-> self.span, next |-> self.next,
      intro |-> self.intro, outro |-> self.outro,
      content |-> self.edited_content,
      start |-> start(self), end |-> end(self),
      is_edited |-> is_edited(self),
      contains |-> [x \in Offsets |-> contains(self, x)],
      split_panics |-> [m \in Offsets |-> split_panics(self, m)],
      fragments |-> fragments(self, Source) ]

\* C16. store_name is only recorded: after an edit the flag is the one of
\* the options (an edit with store_name false resets a flag set before);
\* two chunks that differ only in the flag agree on every other observable
\* and on what an edit makes of them; an edit changes neither span nor next.
C16_StoreNameOnlyRecorded ==
    /\ [](\A i \in Indices(chunks) :
            LET self == Get(chunks, i)
            IN  Observables(WithStoreName(self, ~self.store_name))
                   = Observables(self))
    /\ [][ IsEditStep
           => LET self == Get(chunks, last'.idx)
                  after == Get(chunks', last'.idx)
                  content == last'.arg[1]
                  opts == last'.arg[2]
              IN  /\ after.store_name = opts.store_name
                  /\ after.span = self.span
                  /\ after.next = self.next
                  /\ edit(WithStoreName(self, ~self.store_name), content, opts)
                        = after
                  /\ WithStoreName(edit(self, content,
                                        WithStoreName(opts, ~opts.store_name)),
                                   opts.store_name)
                        = after ]_vars

\* An edit with store_name false has reset the flag an earlier edit set, on
\* a chunk that has a successor in the chain.
C16_Witness ==
    /\ last.op = "edit"
    /\ last.arg[3]
    /\ ~last.arg[2].store_name
    /\ ~Get(chunks, last.idx).store_name
    /\ Get(chunks, last.idx).next # None
    /\ \E i \in Indices(chunks) : Get(chunks, i).store_name

\* A decoration step, and the names of the operations by list and by end.
DecorationOps == {"append_intro", "prepend_intro", "append_outro", "prepend_outro"}
IsDecorationStep == last'.op \in DecorationOps
OnIntro(op) == op \in {"append_intro", "prepend_intro"}
AtBack(op) == op \in {"append_intro", "append_outro"}

\* list is old with f added at the back (or at the front), the fragments
\* of old in their order.
AddedAtEnd(list, old, f, back) ==
    /\ Len(list) = Len(old) + 1
    /\ list[IF back THEN Len(list) ELSE 1] = f
    /\ \A k \in 1 .. Len(old) : list[IF back THEN k ELSE k + 1] = old[k]

\* C17. A decoration touches only its own list end: append_intro adds the
\* fragment as the last of intro, prepend_intro as the first, append_outro
\* as the last of outro, prepend_outro as the first; the fragments already
\* there keep their order, and the other list, span, edited_content, next
\* and store_name are unchanged.  Edited and unedited chunks accept them
\* alike, and an edited chunk keeps the fragment in its fragments.
C17_DecorationFrame ==
    [][ IsDecorationStep
        => LET self == Get(chunks, last'.idx)
               after == Get(chunks', last'.idx)
               op == last'.op
               f == last'.arg
           IN  /\ last'.outcome = "ok"
               /\ IF OnIntro(op)
                  THEN /\ AddedAtEnd(after.intro, self.intro, f, AtBack(op))
                       /\ after.outro = self.outro
                  ELSE /\ AddedAtEnd(after.outro, self.outro, f, AtBack(op))
                       /\ after.intro = self.intro
               /\ after.span = self.span
               /\ after.edited_content = self.edited_content
               /\ after.next = self.next
               /\ after.store_name = self.store_name
               /\ \A i \in Indices(chunks) :
                     i # last'.idx => Get(chunks', i) = Get(chunks, i)
               /\ Len(chunks') = Len(chunks)
               /\ \E k \in 1 .. Len(fragments(after, Source)) :
                     fragments(after, Source)[k] = f ]_vars

\* prepend_outro has put a fragment in front of another one, on a chunk
\* edited before.
C17_Witness ==
    /\ last.op = "prepend_outro"
    /\ is_edited(last.post[1])
    /\ Len(last.post[1].outro) = 2
    /\ last.post[1].outro[1] = last.arg
    /\ last.post[1].outro[2] # last.arg
    /\ Get(chunks, last.idx) = last.post[1]

\* The indices met from link along next, in order: the walk ends at None,
\* at an index that names no entry (which it records), or when fuel is
\* spent (a chain longer than the arena has come back on itself).
RECURSIVE Chain(_, _, _)
Chain(arena, link, fuel) ==
    IF link = None \/ fuel = 0 THEN <<>>
    ELSE IF link[1] \notin Indices(arena) THEN <<link[1]>>
    ELSE <<link[1]>> \o Chain(arena, Get(arena, link[1]).next, fuel - 1)

ChainFromHead == Chain(chunks, Some(head), Len(chunks) + 1)

\* C18. Chain well-formedness: from one chunk over [0, n) as head, after
\* any splits that succeed, each wired by the arena holder, with any edits
\* and decorations in between, the next links from head form a finite
\* acyclic chain that visits every arena entry exactly once, head starts
\* at 0, every visited chunk ends where its successor starts, and the last
\* chunk ends at n with next = None.
C18_ChainWellFormed ==
    LET chain == ChainFromHead
        at(k) == Get(chunks, chain[k])
    IN  /\ Len(chain) = Len(chunks)
        /\ \A k \in 1 .. Len(chain) : chain[k] \in Indices(chunks)
        /\ \A j, k \in 1 .. Len(chain) : chain[j] = chain[k] => j = k
        /\ \A i \in Indices(chunks) : \E k \in 1 .. Len(chain) : chain[k] = i
        /\ chain[1] = head
        /\ start(at(1)) = 0
        /\ \A k \in 1 .. Len(chain) - 1 :
              /\ at(k).next = Some(chain[k + 1])
              /\ end(at(k)) = start(at(k + 1))
        /\ end(at(Len(chain))) = Len(Source)
        /\ at(Len(chain)).next = None

\* Two interior splits of the head in a debug build and an edit since: the
\* chain runs 0, 2, 1, not in arena order.
C18_Witness ==
    /\ debug_assertions
    /\ Running
    /\ ChainFromHead = <<0, 2, 1>>
    /\ Get(chunks, 0).next = Some(2)
    /\ \E i \in Indices(chunks) : is_edited(Get(chunks, i))
    /\ \A i \in Indices(chunks) : start(Get(chunks, i)) < end(Get(chunks, i))

\* C19. The chunk split returns is always unedited: in every successful
\* split the returned chunk has edited_content = None and store_name =
\* false, whatever build; the chunk split was called on is not edited, so
\* the branch of split that edits the new chunk to the empty string is not
\* taken.
C19_SplitReturnsUnedited ==
    /\ []((last.op = "split" /\ last.outcome = "ok")
            => /\ last.ret[1].edited_content = None
               /\ last.ret[1].store_name = FALSE
               /\ last.ret[1] = Get(chunks, Len(chunks) - 1))
    /\ [][ IsSplitStep
           => /\ ~is_edited(SplitSelf)
              /\ last'.ret[1]
                    = [Chunk_new(last_slice_span(SplitSelf, last'.arg))
                          EXCEPT !.outro = SplitSelf.outro,
                                 !.next = SplitSelf.next] ]_vars

\* A split has succeeded in a release build while another chunk of the
\* arena is edited with its name recorded.
C19_Witness ==
    /\ ~debug_assertions
    /\ last.op = "split" /\ last.outcome = "ok"
    /\ ~is_edited(last.ret[1])
    /\ \E i \in Indices(chunks) :
          /\ i # last.idx
          /\ is_edited(Get(chunks, i))
          /\ Get(chunks, i).store_name

====
